---- MODULE Spec2Model ----
(***************************************************************************)
(* Model of the photo-manager ingestion pipeline:                          *)
(*   service.PhotoService.UploadPhoto   (internal/service/photo_service.go)*)
(*   storage.FileManager.SavePhoto      (internal/database/db.go, storage) *)
(*   exif.ExtractExifData               (internal/exif/exif_parser.go)     *)
(*   database.Photo and its unique indexes (internal/database/db.go)       *)
(*                                                                         *)
(* Every HTTP request runs in its own goroutine, so several UploadPhoto    *)
(* calls run interleaved.  One action is one system call / database call   *)
(* of the function; the file system and the catalog table are shared.      *)
(*                                                                         *)
(* An instant (time.Time) is a count of half months from 2024-01-01:       *)
(* -1 lies in 2023-12, 0 and 1 in 2024-01, 2 and 3 in 2024-02, and so on.  *)
(* File contents are byte strings identified by a number; 0 is the empty   *)
(* file left by os.Create before io.Copy has written anything.             *)
(***************************************************************************)
EXTENDS Integers, Sequences, FiniteSets, TLC

\* ------------------------------------------------------------------ bounds
NumProcs   == 2      \* goroutines serving upload requests
MaxUploads == 2      \* UploadPhoto calls started in one behaviour
MaxTime    == 1      \* last instant the wall clock reaches
MaxFaults  == 1      \* I/O and database faults in one behaviour
MaxRows    == 3      \* rows of a catalog that is queried
MaxBatch   == 3      \* files in one multipart upload request

Procs == 1..NumProcs
Time  == 0..MaxTime

\* ------------------------------------------------------------------ inputs
\* Original filenames a client may send (multipart.FileHeader.Filename).
Filenames == {"a.jpg", "b.jpg", "c.jpg"}

\* The EXIF block carried by each of the byte strings a client may send.
ExifBlock ==
    << [kind |-> "none",      DateTime |-> 0],
       [kind |-> "dated",     DateTime |-> 0 - 1],
       [kind |-> "malformed", DateTime |-> 0],
       [kind |-> "nodate",    DateTime |-> 0],
       [kind |-> "dated",     DateTime |-> 0] >>

Bytes == DOMAIN ExifBlock
Empty == 0

\* A multipart.FileHeader: the name and the bytes file.Open() yields.
FileHeaders == [Filename : Filenames, bytes : Bytes]

\* ------------------------------------------------------------- time.Time
\* photoDate.Year() and photoDate.Month(); 2023-01 is month 0 of the count.
Year(t)  == 2023 + ((12 + (t \div 2)) \div 12)
Month(t) == ((12 + (t \div 2)) % 12) + 1

Digit == <<"0", "1", "2", "3", "4", "5", "6", "7", "8", "9">>

\* photoDate.Format("2006"): the year in four digits.
Format2006(t) ==
    LET y == Year(t)
    IN  Digit[((y \div 1000) % 10) + 1] \o Digit[((y \div 100) % 10) + 1]
          \o Digit[((y \div 10) % 10) + 1] \o Digit[(y % 10) + 1]

\* photoDate.Format("01"): the month in two digits, zero padded.
Format01(t) ==
    LET m == Month(t)
    IN  Digit[(m \div 10) + 1] \o Digit[(m % 10) + 1]

\* ------------------------------------------------------------ file paths
BaseStoragePath == "./data/photos"
tempDir         == "/tmp/photo-manager-temp"

\* filepath.Join(a, b)
Join(a, b) == a \o "/" \o b

tempFilePath(file) == Join(tempDir, file.Filename)

\* SavePhoto with the month taken unpadded ("1" instead of "01").
SavePhotoPathUnpadded(file, photoDate) ==
    Join(Join(Join(BaseStoragePath, Format2006(photoDate)),
              IF Month(photoDate) < 10 THEN Digit[Month(photoDate) + 1]
                                       ELSE Format01(photoDate)),
         file.Filename)

\* The location SavePhoto resolves: <root>/<YYYY>/<MM>/<file.Filename>.
SavePhotoPath(file, photoDate) ==
    Join(Join(Join(BaseStoragePath, Format2006(photoDate)), Format01(photoDate)),
         file.Filename)

\* ------------------------------------------------------------------ state
VARIABLES
    fs,        \* the file system: path -> [data, writers]
    photos,    \* the photos table, in insertion order
    pc,        \* where each goroutine stands in UploadPhoto
    call,      \* the locals of each goroutine's UploadPhoto call
    now,       \* the wall clock
    uploads,   \* number of UploadPhoto calls started
    faults,    \* number of I/O and database faults that have occurred
    batch,     \* the locals of each goroutine's UploadPhotoHandler call
    query      \* the last GetPhotos / GetPhotosByTimeline call and its result

vars == <<fs, photos, pc, call, now, uploads, faults, batch, query>>

\* ------------------------------------------------------------ file system
Exists(f, path) == path \in DOMAIN f

\* os.Create: creates the file, or truncates it when it exists; the caller
\* holds a descriptor on the file that is at the path at this moment.
osCreate(f, path, p) ==
    IF Exists(f, path)
      THEN [f EXCEPT ![path] = [data |-> Empty, writers |-> @.writers \cup {p}]]
      ELSE (path :> [data |-> Empty, writers |-> {p}]) @@ f

\* io.Copy(dst, src) followed by dst.Close(): the bytes reach the file the
\* descriptor was opened on; if that file was unlinked meanwhile they are
\* not visible under the path.
ioCopy(f, path, p, bytes) ==
    IF Exists(f, path) /\ p \in f[path].writers
      THEN [f EXCEPT ![path] = [data |-> bytes, writers |-> @.writers \ {p}]]
      ELSE f

\* dst.Close() without a completed copy.
osClose(f, path, p) ==
    IF Exists(f, path)
      THEN [f EXCEPT ![path] = [data |-> @.data, writers |-> @.writers \ {p}]]
      ELSE f

\* os.Remove: unlinks the path (no effect when the path does not exist).
osRemove(f, path) == [q \in (DOMAIN f) \ {path} |-> f[q]]

\* ------------------------------------------------------- exif.ExtractExifData
\* The possible results of ExtractExifData(filePath): err is "" for a nil
\* error, DateTime is <<>> for a nil *ExifData (or a nil DateTime).
\* exif.Decode is a library call: it reports a file without EXIF data by
\* io.EOF / "no exif data", a corrupt block by another error; for an empty
\* file either report is possible.
ExtractExifData(f, filePath) ==
    IF ~Exists(f, filePath)
      THEN {[err |-> "open", DateTime |-> <<>>]}
    ELSE IF f[filePath].data = Empty
      THEN {[err |-> "", DateTime |-> <<>>], [err |-> "decode", DateTime |-> <<>>]}
    ELSE LET x == ExifBlock[f[filePath].data]
         IN  CASE x.kind = "none"      -> {[err |-> "", DateTime |-> <<>>]}
               [] x.kind = "malformed" -> {[err |-> "decode", DateTime |-> <<>>]}
               [] x.kind = "nodate"    -> {[err |-> "", DateTime |-> <<>>]}
               [] x.kind = "dated"     -> {[err |-> "", DateTime |-> <<x.DateTime>>]}

\* --------------------------------------------------------- calculateMD5Hash
\* hex.EncodeToString(md5.Sum(data)): distinct byte strings of the model have
\* distinct digests; the empty file has a digest of its own.
MD5(data) == "md5-" \o Digit[data + 1]

calculateMD5Hash(f, filePath) ==
    IF ~Exists(f, filePath)
      THEN [err |-> "open", hash |-> ""]
      ELSE [err |-> "", hash |-> MD5(f[filePath].data)]

\* ------------------------------------------------------------ photos table
\* DB.Where("hash = ?", hash).First(&existingPhoto): the row with the
\* smallest primary key among those with this hash, <<>> when there is none
\* (gorm.ErrRecordNotFound).
FirstByHash(table, hash) ==
    LET hits == {i \in DOMAIN table : table[i].Hash = hash}
    IN  IF hits = {} THEN <<>>
        ELSE <<table[CHOOSE i \in hits : \A j \in hits : i <= j]>>

\* The photos table without the unique index on Hash.
UniqueViolationNoHashIndex(table, photo) ==
    \E i \in DOMAIN table :
        \/ table[i].Filename   = photo.Filename
        \/ table[i].StoredPath = photo.StoredPath

\* The uniqueIndex tags of database.Photo: Filename, StoredPath and Hash.
UniqueViolation(table, photo) ==
    \E i \in DOMAIN table :
        \/ table[i].Filename   = photo.Filename
        \/ table[i].StoredPath = photo.StoredPath
        \/ table[i].Hash       = photo.Hash

\* DB.Create(&photo) when it succeeds: the row gets the next primary key.
Create(table, photo) ==
    Append(table, [photo EXCEPT !.ID = Len(table) + 1])

\* --------------------------------------------------------------- UploadPhoto
NoFileHeader == [Filename |-> "", bytes |-> Empty]
NoReturn     == [photo |-> <<>>, err |-> "", cause |-> ""]

\* The locals of a call that has not started.  startLen is a history value:
\* the number of rows the table held when the call started.
NoCall ==
    [file |-> NoFileHeader, uploadDate |-> 0, exifDateTime |-> <<>>,
     photoOrganizeDate |-> 0, hash |-> "", filePath |-> "", storedPath |-> "",
     ret |-> NoReturn, startLen |-> 0]

\* The locals of a handler that serves no request.
NoBatch == [files |-> <<>>, i |-> 0, uploadedPhotos |-> <<>>, errors |-> <<>>,
            status |-> 0]

\* No query has been answered.
NoQuery == [op |-> "", filter |-> <<>>, limitPerMonth |-> 0, photos |-> <<>>,
            timeline |-> <<>>, err |-> ""]

Init ==
    /\ fs = [q \in {} |-> [data |-> Empty, writers |-> {}]]
    /\ photos = << >>
    /\ pc = [p \in Procs |-> "idle"]
    /\ call = [p \in Procs |-> NoCall]
    /\ now = 0
    /\ uploads = 0
    /\ faults = 0
    /\ batch = [p \in Procs |-> NoBatch]
    /\ query = NoQuery

\* A return statement placed before the staged file exists (lines 42-54):
\* no deferred os.Remove is registered yet.
ReturnEarly(p, c, err, cause) ==
    /\ pc' = [pc EXCEPT ![p] = "done"]
    /\ call' = [call EXCEPT ![p] =
                  [c EXCEPT !.ret = [photo |-> <<>>, err |-> err, cause |-> cause]]]

\* A return statement after line 57 is reached with the file system as f:
\* the result is fixed, the deferred calls are still to run.
Return(p, c, f, photo, err, cause) ==
    /\ pc' = [pc EXCEPT ![p] = "defer"]
    /\ call' = [call EXCEPT ![p] =
                  [c EXCEPT !.ret = [photo |-> photo, err |-> err, cause |-> cause]]]
    /\ fs' = f

\* An I/O or database fault occurs.
Fault ==
    /\ faults < MaxFaults
    /\ faults' = faults + 1

NoFault == UNCHANGED faults

\* Lines 34-57, entered with the file header of the caller: uploadDate :=
\* time.Now(), os.MkdirAll(tempDir), file.Open() and os.Create(tempFilePath),
\* each of which may fail.
UploadPhoto(p, file) ==
    /\ uploads < MaxUploads
    /\ \E t \in now..MaxTime, fault \in {"", "open", "create_temp"} :
          LET c == [NoCall EXCEPT !.file = file, !.uploadDate = t,
                                  !.startLen = Len(photos)]
          IN  /\ now' = t
              /\ uploads' = uploads + 1
              /\ fault # "" => faults < MaxFaults
              /\ faults' = IF fault = "" THEN faults ELSE faults + 1
              /\ IF fault = ""
                   THEN /\ pc' = [pc EXCEPT ![p] = "copy"]
                        /\ call' = [call EXCEPT ![p] = c]
                        /\ fs' = osCreate(fs, tempFilePath(file), p)
                   ELSE /\ ReturnEarly(p, c, fault, "fault")
                        /\ UNCHANGED fs
    /\ UNCHANGED <<photos, query>>

\* A request with one file reaches UploadPhoto.  The goroutine is free (it
\* has served no request, or has answered its last one); goroutines are
\* interchangeable, so a fresh one is used only when no lower one is fresh.
Start(p) ==
    /\ pc[p] \in {"idle", "done"}
    /\ \A q \in Procs : q < p => pc[q] # "idle"
    /\ \E file \in FileHeaders : UploadPhoto(p, file)
    /\ UNCHANGED batch

\* Lines 59-63: io.Copy(dstTemp, src); dstTemp.Close().
CopyTemp(p) ==
    /\ pc[p] = "copy"
    /\ \/ /\ fs' = ioCopy(fs, tempFilePath(call[p].file), p, call[p].file.bytes)
          /\ pc' = [pc EXCEPT ![p] = "exif"]
          /\ UNCHANGED call
          /\ NoFault
       \/ /\ Fault
          /\ Return(p, call[p], fs, <<>>, "copy_temp", "fault")
    /\ UNCHANGED <<photos, now, uploads, batch, query>>

\* Lines 65-79: exif.ExtractExifData(tempFilePath) and the organizing date.
Exif(p) ==
    /\ pc[p] = "exif"
    /\ \E r \in ExtractExifData(fs, tempFilePath(call[p].file)) :
          IF r.err # ""
            THEN Return(p, call[p], fs, <<>>, "exif", r.err)
            ELSE /\ call' = [call EXCEPT ![p] =
                       [@ EXCEPT !.exifDateTime = r.DateTime,
                                 !.photoOrganizeDate =
                                     IF r.DateTime # <<>> THEN r.DateTime[1]
                                                          ELSE call[p].uploadDate]]
                 /\ pc' = [pc EXCEPT ![p] = "hash"]
                 /\ UNCHANGED fs
    /\ UNCHANGED <<photos, now, uploads, faults, batch, query>>

\* Lines 81-85: calculateMD5Hash(tempFilePath).
Hash(p) ==
    /\ pc[p] = "hash"
    /\ LET r == calculateMD5Hash(fs, tempFilePath(call[p].file))
       IN  IF r.err # ""
             THEN Return(p, call[p], fs, <<>>, "hash", r.err)
             ELSE /\ call' = [call EXCEPT ![p] = [@ EXCEPT !.hash = r.hash]]
                  /\ pc' = [pc EXCEPT ![p] = "check"]
                  /\ UNCHANGED fs
    /\ UNCHANGED <<photos, now, uploads, faults, batch, query>>

\* Lines 87-96: the duplicate pre-check.
Check(p) ==
    /\ pc[p] = "check"
    /\ \/ /\ NoFault
          /\ LET existingPhoto == FirstByHash(photos, call[p].hash)
             IN  IF existingPhoto # <<>>
                   THEN Return(p, call[p], fs, existingPhoto, "duplicate", "")
                   ELSE /\ pc' = [pc EXCEPT ![p] = "save"]
                        /\ UNCHANGED <<fs, call>>
       \/ /\ Fault
          /\ Return(p, call[p], fs, <<>>, "lookup", "fault")
    /\ UNCHANGED <<photos, now, uploads, batch, query>>

\* Step 5, SavePhoto lines 97-125 of db.go: the target directory, the path
\* <root>/<YYYY>/<MM>/<file.Filename>, file.Open() and os.Create(filePath).
SaveCreate(p) ==
    /\ pc[p] = "save"
    /\ LET filePath == SavePhotoPath(call[p].file, call[p].photoOrganizeDate)
       IN  \/ /\ NoFault
              /\ fs' = osCreate(fs, filePath, p)
              /\ call' = [call EXCEPT ![p] = [@ EXCEPT !.filePath = filePath]]
              /\ pc' = [pc EXCEPT ![p] = "save_copy"]
           \/ /\ Fault
              /\ Return(p, call[p], fs, <<>>, "save", "fault")
    /\ UNCHANGED <<photos, now, uploads, batch, query>>

\* SavePhoto lines 127-132 of db.go: io.Copy(dst, src), the deferred
\* dst.Close(), and the assignment of storedPath in UploadPhoto (line 99).
\* A failing copy leaves the created file behind.
SaveCopy(p) ==
    /\ pc[p] = "save_copy"
    /\ \/ /\ NoFault
          /\ fs' = ioCopy(fs, call[p].filePath, p, call[p].file.bytes)
          /\ call' = [call EXCEPT ![p] = [@ EXCEPT !.storedPath = call[p].filePath]]
          /\ pc' = [pc EXCEPT ![p] = "commit"]
       \/ /\ Fault
          /\ Return(p, call[p], osClose(fs, call[p].filePath, p), <<>>, "save", "copy")
    /\ UNCHANGED <<photos, now, uploads, batch, query>>

\* Lines 104-117: the row UploadPhoto builds.
NewPhoto(c) ==
    [ID |-> 0, Filename |-> c.file.Filename, StoredPath |-> c.storedPath,
     UploadDate |-> c.uploadDate, ExifDate |-> c.exifDateTime, Hash |-> c.hash]

\* DB.Create(&photo) fails: pc moves to the error branch of line 120.
CreateFails(p, cause) ==
    /\ call' = [call EXCEPT ![p] =
          [@ EXCEPT !.ret = [photo |-> <<>>, err |-> "db_create", cause |-> cause]]]
    /\ pc' = [pc EXCEPT ![p] = "rollback"]
    /\ UNCHANGED <<fs, photos>>

\* UploadPhoto without the check of result.Error after DB.Create: a refused
\* row is returned as if it had been committed.
CommitIgnoresError(p) ==
    /\ pc[p] = "commit"
    /\ LET photo == NewPhoto(call[p])
       IN  \/ /\ NoFault
              /\ IF UniqueViolation(photos, photo)
                   THEN /\ Return(p, call[p], fs, <<photo>>, "", "")
                        /\ UNCHANGED photos
                   ELSE /\ photos' = Create(photos, photo)
                        /\ Return(p, call[p], fs, <<photos'[Len(photos')]>>, "", "")
           \/ /\ Fault
              /\ CreateFails(p, "fault")
    /\ UNCHANGED <<now, uploads, batch, query>>

\* Lines 119-126: DB.Create(&photo).  It fails on a unique index or on a
\* database fault; on success the call returns the row.
Commit(p) ==
    /\ pc[p] = "commit"
    /\ LET photo == NewPhoto(call[p])
       IN  \/ /\ NoFault
              /\ IF UniqueViolation(photos, photo)
                   THEN CreateFails(p, "unique")
                   ELSE /\ photos' = Create(photos, photo)
                        /\ Return(p, call[p], fs, <<photos'[Len(photos')]>>, "", "")
           \/ /\ Fault
              /\ CreateFails(p, "fault")
    /\ UNCHANGED <<now, uploads, batch, query>>

\* The error branch of line 120 without the compensating os.Remove.
RollbackKeepsFile(p) ==
    /\ pc[p] = "rollback"
    /\ Return(p, call[p], fs, <<>>, call[p].ret.err, call[p].ret.cause)
    /\ UNCHANGED <<photos, now, uploads, faults, batch, query>>

\* Lines 121-123: os.Remove(storedPath), then the return of the commit error.
Rollback(p) ==
    /\ pc[p] = "rollback"
    /\ Return(p, call[p], osRemove(fs, call[p].storedPath), <<>>,
              call[p].ret.err, call[p].ret.cause)
    /\ UNCHANGED <<photos, now, uploads, faults, batch, query>>

\* A return that skips the deferred os.Remove(tempFilePath).
DeferKeepsTemp(p) ==
    /\ pc[p] = "defer"
    /\ fs' = osClose(fs, tempFilePath(call[p].file), p)
    /\ pc' = [pc EXCEPT ![p] = "done"]
    /\ UNCHANGED <<photos, call, now, uploads, faults, batch, query>>

\* Lines 56-57, run when the function returns: the deferred
\* os.Remove(tempFilePath) and dstTemp.Close(); then the caller has the result.
Defer(p) ==
    /\ pc[p] = "defer"
    /\ fs' = osRemove(osClose(fs, tempFilePath(call[p].file), p),
                      tempFilePath(call[p].file))
    /\ pc' = [pc EXCEPT ![p] = "done"]
    /\ UNCHANGED <<photos, call, now, uploads, faults, batch, query>>

Next ==
    \E p \in Procs :
        \/ Start(p)
        \/ CopyTemp(p)
        \/ Exif(p)
        \/ Hash(p)
        \/ Check(p)
        \/ SaveCreate(p)
        \/ SaveCopy(p)
        \/ Commit(p)
        \/ Rollback(p)
        \/ Defer(p)

Spec == Init /\ [][Next]_vars

\* Type correctness of the state.
TypeOK ==
    /\ pc \in [Procs -> {"idle", "copy", "exif", "hash", "check",
                         "save", "save_copy", "commit", "rollback", "defer", "done",
                         "loop", "responded"}]
    /\ now \in Time
    /\ uploads \in 0..MaxUploads
    /\ faults \in 0..MaxFaults
    /\ \A i \in DOMAIN photos : photos[i].ID = i

\* ======================================================= UploadPhotoHandler
\* const maxUploadSize = 10 << 20
maxUploadSize == 10485760

\* The Content-Type headers a client may send with a file.
ContentTypes == {"image/jpeg", "text/plain"}

\* The files of a multipart form: a file whose Content-Type or Size fails the
\* handler's checks is never opened, so its bytes are left out of the model.
FormFiles ==
    [Filename : Filenames, bytes : Bytes, ContentType : {"image/jpeg"},
     Size : {maxUploadSize}]
    \cup [Filename : Filenames, bytes : {Empty}, ContentType : {"text/plain"},
          Size : {maxUploadSize}]
    \cup [Filename : Filenames, bytes : {Empty}, ContentType : {"image/jpeg"},
          Size : {maxUploadSize + 1}]

\* Line 47: the Content-Type is neither image/jpeg nor image/png.
BadContentType(f) == f.ContentType # "image/jpeg" /\ f.ContentType # "image/png"

\* Line 54: the file is larger than maxUploadSize.
TooLarge(f) == f.Size > maxUploadSize

\* form.File["photos"] of the requests a client may send: up to MaxBatch
\* files, of which no more reach UploadPhoto than one behaviour may start.
Forms ==
    {files \in UNION {[1..n -> FormFiles] : n \in 0..MaxBatch} :
        Cardinality({i \in DOMAIN files :
                        ~BadContentType(files[i]) /\ ~TooLarge(files[i])})
            <= MaxUploads}

\* Lines 27-42: the form is parsed; a form without files is answered 400,
\* otherwise the loop over the files starts.  One request is served in a
\* behaviour.
UploadPhotoHandler(p) ==
    /\ pc[p] = "idle"
    /\ \A q \in Procs : pc[q] = "idle" /\ batch[q] = NoBatch
    /\ \E files \in Forms :
          IF Len(files) = 0
            THEN /\ batch' = [batch EXCEPT ![p] = [NoBatch EXCEPT !.status = 400]]
                 /\ pc' = [pc EXCEPT ![p] = "responded"]
            ELSE /\ batch' = [batch EXCEPT ![p] = [NoBatch EXCEPT !.files = files,
                                                                  !.i = 1]]
                 /\ pc' = [pc EXCEPT ![p] = "loop"]
    /\ UNCHANGED <<fs, photos, call, now, uploads, faults, query>>

\* Lines 44-57: the file of this iteration fails the Content-Type or the size
\* check; an error descriptor is appended and the loop continues.
PreCheckFails(p) ==
    /\ pc[p] = "loop"
    /\ batch[p].i <= Len(batch[p].files)
    /\ LET file == batch[p].files[batch[p].i]
       IN  /\ BadContentType(file) \/ TooLarge(file)
           /\ batch' = [batch EXCEPT ![p] =
                 [@ EXCEPT !.i = @ + 1,
                           !.errors = Append(@,
                               [filename |-> file.Filename,
                                error |-> IF BadContentType(file)
                                            THEN "content_type" ELSE "size"])]]
    /\ UNCHANGED <<fs, photos, pc, call, now, uploads, faults, query>>

\* Line 59: the file passes the checks and UploadPhoto is called with it.
CallUploadPhoto(p) ==
    /\ pc[p] = "loop"
    /\ batch[p].i <= Len(batch[p].files)
    /\ LET file == batch[p].files[batch[p].i]
       IN  /\ ~BadContentType(file) /\ ~TooLarge(file)
           /\ UploadPhoto(p, [Filename |-> file.Filename, bytes |-> file.bytes])
    /\ UNCHANGED batch

\* Lines 60-76: UploadPhoto has returned; its error or its entry becomes the
\* descriptor of the file and the loop continues.
AppendDescriptor(p) ==
    /\ pc[p] = "done"
    /\ batch[p].i >= 1 /\ batch[p].i <= Len(batch[p].files)
    /\ LET ret == call[p].ret
       IN  batch' = [batch EXCEPT ![p] =
              IF ret.err # ""
                THEN [@ EXCEPT !.i = @ + 1,
                               !.errors = Append(@,
                                   [filename |-> call[p].file.Filename,
                                    error |-> ret.err])]
                ELSE [@ EXCEPT !.i = @ + 1,
                               !.uploadedPhotos = Append(@,
                                   [id |-> ret.photo[1].ID,
                                    filename |-> ret.photo[1].Filename,
                                    stored_at |-> ret.photo[1].StoredPath,
                                    exif_date |-> ret.photo[1].ExifDate])]]
    /\ pc' = [pc EXCEPT ![p] = "loop"]
    /\ UNCHANGED <<fs, photos, call, now, uploads, faults, query>>

\* Lines 78-89: the loop is over; 207 with both lists when a file failed,
\* 200 with the uploaded list otherwise.
Respond(p) ==
    /\ pc[p] = "loop"
    /\ batch[p].i > Len(batch[p].files)
    /\ batch' = [batch EXCEPT ![p] =
          [@ EXCEPT !.status = IF Len(batch[p].errors) > 0 THEN 207 ELSE 200]]
    /\ pc' = [pc EXCEPT ![p] = "responded"]
    /\ UNCHANGED <<fs, photos, call, now, uploads, faults, query>>

BatchNext ==
    \E p \in Procs :
        \/ UploadPhotoHandler(p)
        \/ PreCheckFails(p)
        \/ CallUploadPhoto(p)
        \/ CopyTemp(p)
        \/ Exif(p)
        \/ Hash(p)
        \/ Check(p)
        \/ SaveCreate(p)
        \/ SaveCopy(p)
        \/ Commit(p)
        \/ Rollback(p)
        \/ Defer(p)
        \/ AppendDescriptor(p)
        \/ Respond(p)

BatchSpec == Init /\ [][BatchNext]_vars

\* ================================================================ GetPhotos
\* time.Date(year, month, 1, 0, 0, 0, 0, time.UTC) as an instant: the first
\* instant of the month; a month outside 1..12 normalises into another year.
Date(year, month) == 2 * (((year - 2024) * 12) + (month - 1))

\* "column BETWEEN ? AND ?" on a nullable column value (<<>> is NULL, for
\* which the comparison is not true).
Between(x, startDate, endDate) ==
    x # <<>> /\ startDate <= x[1] /\ x[1] <= endDate

\* The pieces a filename of the model is made of.
Pieces == {"", "a", "b", "c", ".jpg"}

\* "column LIKE '%' || sub || '%'" on a column value of the model.
Like(value, sub) == \E pre \in Pieces, post \in Pieces : pre \o sub \o post = value

\* UploadPhoto never sets Tags (lines 104-117): the column holds "".
Tags(photo) == ""

\* The filters a client may send (PhotoFilter, as GetPhotosHandler fills it).
PhotoFilters ==
    [Year : {0, 2023, 2024}, Month : {0, 1, 12}, Filename : {"", "a"},
     Tag : {"", "a"}, Offset : {0, 1}, Limit : {0, 1},
     OrderBy : {"", "upload_date ASC"}]

\* The year interval of lines 159-165 applied to both date columns.
WhereYear(photo, filter) ==
    LET startDate == Date(filter.Year, 1)
        endDate   == Date(filter.Year + 1, 1) - 1
    IN  \/ Between(photo.ExifDate, startDate, endDate)
        \/ Between(<<photo.UploadDate>>, startDate, endDate)

\* The month interval of lines 176-179 applied to both date columns.
WhereMonth(photo, filter) ==
    LET startDate == Date(filter.Year, filter.Month)
        endDate   == Date(filter.Year, filter.Month + 1) - 1
    IN  \/ Between(photo.ExifDate, startDate, endDate)
        \/ Between(<<photo.UploadDate>>, startDate, endDate)

\* The conjunction of the Where clauses GetPhotos adds (lines 159-189).
Where(photo, filter) ==
    /\ filter.Year # 0 => WhereYear(photo, filter)
    /\ filter.Month # 0 => WhereMonth(photo, filter)
    /\ filter.Filename # "" => Like(photo.Filename, filter.Filename)
    /\ filter.Tag # "" => Like(Tags(photo), filter.Tag)

\* ORDER BY exif_date DESC, upload_date DESC: a sorts strictly before b.
\* SQLite sorts NULL below every value, so under DESC a NULL exif_date is last.
DefaultBefore(a, b) ==
    \/ a.ExifDate # <<>> /\ b.ExifDate = <<>>
    \/ a.ExifDate # <<>> /\ b.ExifDate # <<>> /\ a.ExifDate[1] > b.ExifDate[1]
    \/ a.ExifDate = b.ExifDate /\ a.UploadDate > b.UploadDate

\* The ORDER BY of lines 191-197: a sorts strictly before b.
Before(a, b, orderBy) ==
    IF orderBy = "" THEN DefaultBefore(a, b)
                    ELSE a.UploadDate < b.UploadDate

\* The sequences a SELECT ... ORDER BY may yield for a set of rows: every
\* arrangement that respects the order; rows that compare equal come in an
\* order the database does not define.
Ordered(rows, orderBy) ==
    {s \in [1..Cardinality(rows) -> rows] :
        /\ \A i, j \in DOMAIN s : i # j => s[i] # s[j]
        /\ \A i, j \in DOMAIN s : i < j => ~Before(s[j], s[i], orderBy)}

\* LIMIT and OFFSET of lines 199-205, each applied only when positive.
Page(s, filter) ==
    LET first == IF filter.Offset > 0 THEN filter.Offset + 1 ELSE 1
        last  == IF filter.Limit > 0 THEN first + filter.Limit - 1 ELSE Len(s)
    IN  SubSeq(s, first, IF last < Len(s) THEN last ELSE Len(s))

\* The rows of the table as a set.
Rows(table) == {table[i] : i \in DOMAIN table}

\* GetPhotos without the month-requires-year check: the month is ignored.
GetPhotosIgnoresMonth(table, filter) ==
    LET f == IF filter.Year = 0 THEN [filter EXCEPT !.Month = 0] ELSE filter
    IN  {[photos |-> Page(s, f), err |-> ""] :
            s \in Ordered({r \in Rows(table) : Where(r, f)}, f.OrderBy)}

\* GetPhotos(filter): the results the call may return (lines 156-213).
GetPhotos(table, filter) ==
    IF filter.Month # 0 /\ filter.Year = 0
      THEN {[photos |-> <<>>, err |-> "month_requires_year"]}
      ELSE {[photos |-> Page(s, filter), err |-> ""] :
               s \in Ordered({r \in Rows(table) : Where(r, filter)}, filter.OrderBy)}

\* ======================================================= GetPhotosByTimeline
\* Lines 233-238: the date a row is grouped by.
dateToUse(photo) ==
    IF photo.ExifDate # <<>> THEN photo.ExifDate[1] ELSE photo.UploadDate

\* Lines 232-254: the loop over the ordered rows, filling year -> month -> rows.
RECURSIVE TimelineLoop(_, _, _)
TimelineLoop(timeline, rows, limitPerMonth) ==
    IF rows = <<>> THEN timeline
    ELSE LET photo == Head(rows)
             year  == Year(dateToUse(photo))
             month == Month(dateToUse(photo))
             t1 == IF year \in DOMAIN timeline THEN timeline
                   ELSE (year :> <<>>) @@ timeline
             t2 == IF month \in DOMAIN t1[year] THEN t1
                   ELSE [t1 EXCEPT ![year] = (month :> <<>>) @@ @]
             t3 == IF limitPerMonth = 0 \/ Len(t2[year][month]) < limitPerMonth
                     THEN [t2 EXCEPT ![year][month] = Append(@, photo)]
                     ELSE t2
         IN  TimelineLoop(t3, Tail(rows), limitPerMonth)

\* GetPhotosByTimeline(limitPerMonth): the results the call may return.
GetPhotosByTimeline(table, limitPerMonth) ==
    {TimelineLoop(<<>>, s, limitPerMonth) : s \in Ordered(Rows(table), "")}

\* ------------------------------------------------------- queried catalogs
\* A committed upload: a file that passes extraction and its upload instant.
CommittedUploads ==
    {u \in [file : FileHeaders, uploadDate : Time] :
        ExifBlock[u.file.bytes].kind # "malformed"}

\* The upload u can be committed after those of h: its name and its content
\* are new, and it is not uploaded before them.
Extends(h, u) ==
    \A i \in DOMAIN h : /\ h[i].file.Filename # u.file.Filename
                        /\ h[i].file.bytes # u.file.bytes
                        /\ h[i].uploadDate <= u.uploadDate

\* The sequences of n uploads that are committed one after the other.
RECURSIVE HistoriesOfLen(_)
HistoriesOfLen(n) ==
    IF n = 0 THEN {<<>>}
    ELSE {Append(x[1], x[2]) :
            x \in {y \in HistoriesOfLen(n - 1) \X CommittedUploads :
                      Extends(y[1], y[2])}}

\* The uploads a catalog is built from.
Histories == UNION {HistoriesOfLen(n) : n \in 0..MaxRows}

\* The locals of a faultless UploadPhoto call for upload u when it commits.
CommittingCall(u) ==
    LET x    == ExifBlock[u.file.bytes]
        exif == IF x.kind = "dated" THEN <<x.DateTime>> ELSE <<>>
        date == IF exif # <<>> THEN exif[1] ELSE u.uploadDate
    IN  [NoCall EXCEPT !.file = u.file, !.uploadDate = u.uploadDate,
                       !.exifDateTime = exif, !.photoOrganizeDate = date,
                       !.hash = MD5(u.file.bytes),
                       !.filePath = SavePhotoPath(u.file, date),
                       !.storedPath = SavePhotoPath(u.file, date)]

\* The table after the uploads of h have been committed in turn.
RECURSIVE Catalog(_)
Catalog(h) ==
    IF h = <<>> THEN <<>>
    ELSE Create(Catalog(SubSeq(h, 1, Len(h) - 1)),
                NewPhoto(CommittingCall(h[Len(h)])))

\* The stored files of the uploads of h.
StoredFiles(h) ==
    LET path(i) == CommittingCall(h[i]).storedPath
    IN  [q \in {path(i) : i \in DOMAIN h} |->
            [data |-> h[CHOOSE i \in DOMAIN h : path(i) = q].file.bytes,
             writers |-> {}]]

\* The service after the uploads of some history, no call in progress.
QueryInit ==
    \E h \in Histories :
        /\ photos = Catalog(h)
        /\ fs = StoredFiles(h)
        /\ now = IF h = <<>> THEN 0 ELSE h[Len(h)].uploadDate
        /\ pc = [p \in Procs |-> "idle"]
        /\ call = [p \in Procs |-> NoCall]
        /\ uploads = 0
        /\ faults = 0
        /\ batch = [p \in Procs |-> NoBatch]
        /\ query = NoQuery

\* The limit_per_month values a client may send.
LimitsPerMonth == {0 - 1, 0, 1, 2}

\* GetPhotosHandler (photo_handler.go lines 93-167): the filter of the query
\* string is handed to GetPhotos and the result is answered.  A query reads
\* the table and changes nothing, so one query per behaviour covers them all.
GetPhotosHandler ==
    /\ query = NoQuery
    /\ \E filter \in PhotoFilters : \E r \in GetPhotos(photos, filter) :
          query' = [op |-> "list", filter |-> filter, limitPerMonth |-> 0,
                    photos |-> r.photos, timeline |-> <<>>, err |-> r.err]
    /\ UNCHANGED <<fs, photos, pc, call, now, uploads, faults, batch>>

\* GetPhotosTimelineHandler (photo_handler.go lines 170-219).
GetPhotosTimelineHandler ==
    /\ query = NoQuery
    /\ \E limitPerMonth \in LimitsPerMonth :
          \E t \in GetPhotosByTimeline(photos, limitPerMonth) :
             query' = [op |-> "timeline", filter |-> <<>>,
                       limitPerMonth |-> limitPerMonth, photos |-> <<>>,
                       timeline |-> t, err |-> ""]
    /\ UNCHANGED <<fs, photos, pc, call, now, uploads, faults, batch>>

QueryNext == GetPhotosHandler \/ GetPhotosTimelineHandler

QuerySpec == QueryInit /\ [][QueryNext]_vars

\* =================================================================== claims
\* The calendar, written out: the directory names of a year and of a month.
YearName  == (2023 :> "2023") @@ (2024 :> "2024")
MonthName == <<"01", "02", "03", "04", "05", "06",
               "07", "08", "09", "10", "11", "12">>

\* The organizing timestamp of a row: ExifDate when present, else UploadDate.
Organizing(e) == IF e.ExifDate # <<>> THEN e.ExifDate[1] ELSE e.UploadDate

\* The call of p got past the pre-check and placed its file.
Placed(p) == call[p].storedPath # ""

\* The call of p returned without meeting an I/O or database fault.
Faultless(p) == call[p].ret.cause # "fault"

\* The row, if any, that the call of p committed.
Committed(p) == call[p].ret.err = "" /\ call[p].ret.photo # <<>>

\* C1: no two rows of the photos table have the same Hash, whatever the
\* uploads and their interleaving.
C1_UniqueContentHash ==
    \A i, j \in DOMAIN photos : i # j => photos[i].Hash # photos[j].Hash

\* Two calls hashed the same bytes under different names, both got past the
\* pre-check, one committed and the unique index refused the other.
C1_Witness ==
    \E p, q \in Procs :
        /\ p # q /\ pc[p] = "done" /\ pc[q] = "done"
        /\ call[p].hash = call[q].hash
        /\ call[p].file.Filename # call[q].file.Filename
        /\ Committed(p)
        /\ call[q].ret.err = "db_create" /\ call[q].ret.cause = "unique"

\* C2: of two calls with identical bytes that both got past the pre-check,
\* one commits and the other returns the duplicate outcome carrying the
\* committed row (faults aside).
C2_RaceLoserGetsDuplicate ==
    \A p, q \in Procs :
        ( /\ p # q /\ pc[p] = "done" /\ pc[q] = "done"
          /\ call[p].file.bytes = call[q].file.bytes
          /\ call[p].hash = call[q].hash
          /\ Placed(p) /\ Placed(q)
          /\ Faultless(p) /\ Faultless(q) )
        => \/ /\ Committed(p)
              /\ call[q].ret.err = "duplicate"
              /\ call[q].ret.photo = call[p].ret.photo
           \/ /\ Committed(q)
              /\ call[p].ret.err = "duplicate"
              /\ call[p].ret.photo = call[q].ret.photo

\* C3: the StoredPath of every row of the photos table holds a file (in
\* behaviours without I/O or database faults).
C3_EveryRowHasItsFile ==
    faults = 0 => \A i \in DOMAIN photos : Exists(fs, photos[i].StoredPath)

\* C4: when DB.Create fails after the file was placed, the call adds no row,
\* and before it returns it removes the file at the location it placed it.
C4_CommitFailureRemovesFile ==
    [][\A p \in Procs :
          /\ (pc[p] = "commit" /\ pc'[p] = "rollback") => photos' = photos
          /\ (pc[p] = "rollback" /\ pc'[p] # "rollback") =>
                /\ ~Exists(fs', call[p].storedPath)
                /\ photos' = photos
                /\ call'[p].ret.photo = <<>>
                /\ call'[p].ret.err = "db_create"]_vars

\* A call whose commit failed has returned, and its location holds no file.
C4_Witness ==
    \E p \in Procs :
        /\ pc[p] = "done" /\ call[p].ret.err = "db_create" /\ Placed(p)
        /\ ~Exists(fs, call[p].storedPath)

\* C5: two calls with different bytes, the same filename and organizing
\* dates in the same year and month resolve different locations.
C5_DifferentContentDifferentLocation ==
    \A p, q \in Procs :
        ( /\ p # q
          /\ call[p].filePath # "" /\ call[q].filePath # ""
          /\ call[p].file.bytes # call[q].file.bytes
          /\ call[p].file.Filename = call[q].file.Filename
          /\ Year(call[p].photoOrganizeDate) = Year(call[q].photoOrganizeDate)
          /\ Month(call[p].photoOrganizeDate) = Month(call[q].photoOrganizeDate) )
        => call[p].filePath # call[q].filePath

\* C6: a call that reached the commit with a filename some row already has,
\* while no other row has its hash or its location, commits (faults aside).
C6_FilenameIsNoUniquenessKey ==
    \A p \in Procs :
        ( /\ pc[p] = "done" /\ Placed(p) /\ Faultless(p)
          /\ call[p].hash = MD5(call[p].file.bytes)
          /\ \E i \in DOMAIN photos :
                /\ <<photos[i]>> # call[p].ret.photo
                /\ photos[i].Filename = call[p].file.Filename
          /\ \A i \in DOMAIN photos :
                <<photos[i]>> # call[p].ret.photo =>
                    /\ photos[i].Hash # call[p].hash
                    /\ photos[i].StoredPath # call[p].storedPath )
        => Committed(p)

\* C7: a call whose bytes have the hash of a row committed before the call
\* started returns the duplicate error with that row and places no file
\* (faults aside).
C7_DuplicateUploadRejected ==
    \A p \in Procs :
        ( /\ pc[p] = "done" /\ Faultless(p)
          /\ \E i \in 1..call[p].startLen :
                photos[i].Hash = MD5(call[p].file.bytes) )
        => /\ call[p].ret.err = "duplicate"
           /\ call[p].ret.photo # <<>>
           /\ call[p].ret.photo[1].Hash = MD5(call[p].file.bytes)
           /\ call[p].filePath = ""

\* C8: no call whose bytes carry no EXIF block, a block without a timestamp
\* or a corrupt block returns the extraction error because of the decoding.
C8_ExtractionNeverFailsIngestion ==
    \A p \in Procs :
        ( /\ call[p].file.bytes \in Bytes
          /\ ExifBlock[call[p].file.bytes].kind \in {"none", "nodate", "malformed"} )
            => ~(call[p].ret.err = "exif" /\ call[p].ret.cause = "decode")

\* C9: the StoredPath of every row is <root>/<YYYY>/<MM>/<Filename> for the
\* year and the zero-padded month of its organizing timestamp: ExifDate when
\* extraction produced one, UploadDate otherwise.
C9_StoredPathFromOrganizingDate ==
    \A i \in DOMAIN photos :
        photos[i].StoredPath =
            BaseStoragePath \o "/" \o YearName[Year(Organizing(photos[i]))]
                \o "/" \o MonthName[Month(Organizing(photos[i]))]
                \o "/" \o photos[i].Filename

\* A row placed by its capture month (2023-12), and a row without capture
\* timestamp placed by its upload month (2024-01).
C9_Witness ==
    /\ \E i \in DOMAIN photos :
          /\ photos[i].ExifDate # <<>>
          /\ Month(photos[i].ExifDate[1]) # Month(photos[i].UploadDate)
    /\ \E i \in DOMAIN photos : photos[i].ExifDate = <<>>

\* C10: whenever a call that created its staged file returns, no file is
\* left at the staged file's path.
C10_StagingReleasedOnEveryExit ==
    [][\A p \in Procs :
          (pc[p] \notin {"idle", "done"} /\ pc'[p] = "done")
              => ~Exists(fs', tempFilePath(call[p].file))]_vars

\* Calls have returned on the success, duplicate and commit-error paths.
C10_Witness ==
    \E p, q \in Procs :
        /\ p # q /\ pc[p] = "done" /\ pc[q] = "done"
        /\ call[p].ret.err = ""
        /\ call[q].ret.err \in {"duplicate", "db_create", "exif", "hash", "save"}
        /\ ~Exists(fs, tempFilePath(call[p].file))
        /\ ~Exists(fs, tempFilePath(call[q].file))

\* The call of p holds a staged file: from os.Create(tempFilePath) (line 52)
\* to the deferred os.Remove(tempFilePath) (line 57).
Staging(p) == pc[p] \in {"copy", "exif", "hash", "check", "save", "save_copy",
                         "commit", "rollback", "defer"}

\* The call of p is in progress: staging has started and the call has not
\* returned.
InProgress(p) == Staging(p)

\* C11: while a call holds its staged file, no step of another call creates,
\* truncates, writes or removes the file at that path, and no other call that
\* holds a staged file has it at the same path (where it would read it).
C11_StagingSlotExclusive ==
    [][\A p \in Procs :
          (Staging(p) /\ pc'[p] = pc[p]) =>
              LET path == tempFilePath(call[p].file)
              IN  /\ Exists(fs, path) <=> Exists(fs', path)
                  /\ Exists(fs, path) => fs'[path] = fs[path]
                  /\ \A q \in Procs \ {p} :
                        Staging(q) => tempFilePath(call[q].file) # path]_vars

\* C12: a GetPhotos call with a month filter and no year filter returns an
\* error and no rows, whatever the other fields of the filter and the table.
C12_MonthWithoutYearIsAnError ==
    (query.op = "list" /\ query.filter.Month # 0 /\ query.filter.Year = 0)
        => query.err # "" /\ query.photos = <<>>

\* Such a call was answered on a table whose rows match the other filter
\* fields, with limit, offset and order set.
C12_Witness ==
    /\ query.op = "list" /\ query.err # ""
    /\ query.filter.Month # 0 /\ query.filter.Year = 0
    /\ query.filter.Filename # "" /\ query.filter.Limit > 0
    /\ query.filter.Offset > 0 /\ query.filter.OrderBy # ""
    /\ \E i \in DOMAIN photos : Like(photos[i].Filename, query.filter.Filename)

\* The organizing timestamp e lies in the calendar year, or in the month of
\* the year, that the filter names.
InFilterInterval(e, filter) ==
    /\ Year(Organizing(e)) = filter.Year
    /\ filter.Month # 0 => Month(Organizing(e)) = filter.Month

\* C13: a GetPhotos call with a year filter (and possibly a month filter) and
\* no other restriction returns exactly the rows whose organizing timestamp
\* lies in that year (that month of that year).
C13_YearMonthFilterByOrganizingDate ==
    ( /\ query.op = "list" /\ query.err = "" /\ query.filter.Year # 0
      /\ query.filter.Filename = "" /\ query.filter.Tag = ""
      /\ query.filter.Limit = 0 /\ query.filter.Offset = 0 )
    => Rows(query.photos) = {e \in Rows(photos) : InFilterInterval(e, query.filter)}

\* C14: with no orderBy, GetPhotos returns the rows in descending order of
\* organizing timestamp.
C14_DefaultOrderByOrganizingDate ==
    (query.op = "list" /\ query.err = "" /\ query.filter.OrderBy = "")
    => \A i, j \in DOMAIN query.photos :
          i < j => Organizing(query.photos[i]) >= Organizing(query.photos[j])

\* The buckets of a timeline: the <<year, month>> keys it holds.
Buckets(timeline) ==
    UNION {{<<y, m>> : m \in DOMAIN timeline[y]} : y \in DOMAIN timeline}

\* The rows of the table whose organizing timestamp lies in month m of year y.
RowsOfMonth(table, y, m) ==
    {e \in Rows(table) : Year(Organizing(e)) = y /\ Month(Organizing(e)) = m}

\* The sequence s is in descending order of organizing timestamp.
NewestFirst(s) ==
    \A i, j \in DOMAIN s : i < j => Organizing(s[i]) >= Organizing(s[j])

\* C15: with limitPerMonth = k > 0 every bucket holds the k rows of its month
\* with the latest organizing timestamps (all rows when there are fewer),
\* newest first.
C15_BucketKeepsNewest ==
    (query.op = "timeline" /\ query.limitPerMonth > 0) =>
        \A b \in Buckets(query.timeline) :
            LET bucket == query.timeline[b[1]][b[2]]
                all    == RowsOfMonth(photos, b[1], b[2])
            IN  /\ Rows(bucket) \subseteq all
                /\ \A i, j \in DOMAIN bucket : i # j => bucket[i] # bucket[j]
                /\ Len(bucket) = IF Cardinality(all) < query.limitPerMonth
                                   THEN Cardinality(all) ELSE query.limitPerMonth
                /\ \A e \in all \ Rows(bucket) : \A x \in Rows(bucket) :
                      Organizing(e) <= Organizing(x)
                /\ NewestFirst(bucket)

\* C16: with no limit every row of the table is in exactly one bucket, the
\* one of the year and month of its organizing timestamp, and every bucket
\* is in descending order of organizing timestamp.
C16_TimelinePartitionsCatalog ==
    (query.op = "timeline" /\ query.limitPerMonth = 0) =>
        /\ \A e \in Rows(photos) :
              /\ <<Year(Organizing(e)), Month(Organizing(e))>> \in Buckets(query.timeline)
              /\ \A b \in Buckets(query.timeline) :
                    LET bucket == query.timeline[b[1]][b[2]]
                    IN  Cardinality({i \in DOMAIN bucket : bucket[i] = e}) =
                           IF b = <<Year(Organizing(e)), Month(Organizing(e))>>
                             THEN 1 ELSE 0
        /\ \A b \in Buckets(query.timeline) :
              /\ Rows(query.timeline[b[1]][b[2]]) \subseteq Rows(photos)
              /\ NewestFirst(query.timeline[b[1]][b[2]])

\* C17 (descriptors): every file the loop has dealt with has exactly one
\* descriptor, and the response is sent only when every file of the form has
\* been dealt with, whatever failed before.
C17_OneDescriptorPerFile ==
    \A p \in Procs :
        /\ batch[p].i >= 1 =>
              Len(batch[p].uploadedPhotos) + Len(batch[p].errors) = batch[p].i - 1
        /\ batch[p].status \in {200, 207} =>
              Len(batch[p].uploadedPhotos) + Len(batch[p].errors)
                  = Len(batch[p].files)

\* C17: every file of a batch has exactly one descriptor, and the entry
\* committed for a file stays as it was while the later files of the batch
\* are processed: its row is in the table and its stored file holds its bytes.
C17_BatchFilesIndependent ==
    /\ C17_OneDescriptorPerFile
    /\ \A p \in Procs : \A k \in DOMAIN batch[p].uploadedPhotos :
          LET d == batch[p].uploadedPhotos[k]
          IN  /\ d.id \in DOMAIN photos
              /\ photos[d.id].StoredPath = d.stored_at
              /\ Exists(fs, d.stored_at)
              /\ MD5(fs[d.stored_at].data) = photos[d.id].Hash

\* C18: the number of calls in progress at the same time stays below the
\* number of upload requests that arrive concurrently (one per goroutine):
\* some request waits for admission.
C18_BoundedConcurrentIngestions ==
    Cardinality({p \in Procs : InProgress(p)}) < NumProcs

\* C19: when SavePhoto fails in io.Copy after os.Create made the destination
\* file, the call adds no row, and when it returns no file is at that location
\* and it carries no entry.
C19_FailedPlacementLeavesNoFile ==
    [][\A p \in Procs :
          /\ (pc[p] = "save_copy" /\ pc'[p] = "defer") => photos' = photos
          /\ ( /\ pc[p] = "defer" /\ pc'[p] = "done"
               /\ call[p].ret.err = "save" /\ call[p].ret.cause = "copy" )
             => /\ ~Exists(fs', call[p].filePath)
                /\ photos' = photos
                /\ call[p].ret.photo = <<>>]_vars

\* C20: a call returns without error exactly when it committed one new row
\* (the row it returns), a call commits at most once, rows are only ever
\* appended, and no step changes a row that is in the table.
C20_EntryCreatedOnceAndImmutable ==
    [][/\ \A i \in DOMAIN photos : i \in DOMAIN photos' /\ photos'[i] = photos[i]
       /\ \A p \in Procs :
             LET commits == pc[p] = "commit" /\ pc'[p] = "defer"
                 row     == [NewPhoto(call[p]) EXCEPT !.ID = Len(photos) + 1]
             IN  /\ commits => /\ photos' = Append(photos, row)
                               /\ call'[p].ret = [photo |-> <<row>>, err |-> "",
                                                  cause |-> ""]
                 /\ (call'[p] # call[p] /\ ~commits) =>
                       /\ photos' = photos
                       /\ pc'[p] \in {"defer", "done"} => call'[p].ret.err # ""
                 /\ pc[p] = "defer" => call'[p].ret = call[p].ret
                 /\ (pc[p] = "defer" /\ pc'[p] = "done" /\ call[p].ret.err = "") =>
                       /\ call[p].ret.photo # <<>>
                       /\ call[p].ret.photo[1].ID > call[p].startLen
                       /\ photos'[call[p].ret.photo[1].ID] = call[p].ret.photo[1]]_vars

\* A call has returned the row it committed and another has returned an
\* error after the commit was refused; the table holds that one row.
C20_Witness ==
    \E p, q \in Procs :
        /\ p # q /\ pc[p] = "done" /\ pc[q] = "done"
        /\ Committed(p) /\ photos = call[p].ret.photo
        /\ call[q].ret.err = "db_create"

\* C21: the default order is fixed by the rows: a GetPhotos call without
\* orderBy has one possible answer, so a second call with the same filter on
\* the same table returns the same sequence.
C21_DefaultOrderDeterministic ==
    (query.op = "list" /\ query.err = "" /\ query.filter.OrderBy = "")
    => \A r \in GetPhotos(photos, query.filter) : r.photos = query.photos

\* C22: for limitPerMonth <= 0 no bucket is truncated: every row of the table
\* is in the bucket of its year and month, and no bucket is empty.
C22_NonPositiveLimitKeepsAll ==
    (query.op = "timeline" /\ query.limitPerMonth <= 0) =>
        /\ \A e \in Rows(photos) :
              LET y == Year(Organizing(e))
                  m == Month(Organizing(e))
              IN  /\ <<y, m>> \in Buckets(query.timeline)
                  /\ e \in Rows(query.timeline[y][m])
        /\ \A b \in Buckets(query.timeline) : query.timeline[b[1]][b[2]] # <<>>

\* No UploadPhoto call is in progress.
Quiescent == \A p \in Procs : ~InProgress(p)

\* C23: whenever no call is in progress, the file at the StoredPath of every
\* row holds the bytes the row was ingested from: it exists and its digest
\* is the row's Hash (in behaviours without I/O or database faults).
C23_StoredBytesMatchHash ==
    (Quiescent /\ faults = 0) =>
        \A i \in DOMAIN photos :
            /\ Exists(fs, photos[i].StoredPath)
            /\ MD5(fs[photos[i].StoredPath].data) = photos[i].Hash

\* C24: from the step that fixes its error on, a call that returns an error
\* changes no row of the table and neither changes nor removes the file of a
\* row of the table; in particular its os.Remove(storedPath) does not.
C24_FailedCallLeavesEntriesAlone ==
    [][\A p \in Procs :
          (InProgress(p) /\ pc'[p] # pc[p] /\ call'[p].ret.err # "") =>
              /\ photos' = photos
              /\ \A i \in DOMAIN photos :
                    LET path == photos[i].StoredPath
                    IN  Exists(fs, path) =>
                            /\ Exists(fs', path)
                            /\ fs'[path].data = fs[path].data]_vars

\* The sequence a is the first n elements of the sequence b.
IsPrefix(a, b, n) == Len(a) = n /\ n <= Len(b) /\ a = SubSeq(b, 1, n)

\* C25: for k > 0, an answer of GetPhotosByTimeline(k) has the year/month
\* keys of any answer of GetPhotosByTimeline(0) on the same table, and each
\* of its buckets is the first min(k, n) rows of the same bucket of that
\* answer, n being the length of that bucket.
C25_LimitedTimelineIsPrefix ==
    (query.op = "timeline" /\ query.limitPerMonth > 0) =>
        \A full \in GetPhotosByTimeline(photos, 0) :
            /\ Buckets(query.timeline) = Buckets(full)
            /\ \A b \in Buckets(full) :
                  LET n == Len(full[b[1]][b[2]])
                  IN  IsPrefix(query.timeline[b[1]][b[2]], full[b[1]][b[2]],
                               IF query.limitPerMonth < n
                                 THEN query.limitPerMonth ELSE n)

====
